---- MODULE Spec2Model ----
(***************************************************************************)
(* Stripe -> Telegram access manager.                                      *)
(*                                                                         *)
(* The repository holds two builds of the server: src/app.js and the later *)
(* src/unnamed/part_000 (it adds the dashboard, the outer try/catch of the *)
(* Stripe webhook and the USER_NOT_PARTICIPANT classification).  Both are  *)
(* modelled; the variable build says which one is deployed.                *)
(*                                                                         *)
(* Texts and emails are sequences of one-character strings, so that trim,  *)
(* includes, startsWith and LOWER are computed rather than assumed.        *)
(*                                                                         *)
(* Specifications:                                                         *)
(*   Spec             the message and payment routes, requests handled one *)
(*                    at a time, with redelivery of the event just handled *)
(*   SpecAdmin        every route, GET /dashboard included                 *)
(*   SpecOrder        the message and payment routes, for pairs of events  *)
(*   SpecInterleaved  text handlers interleaved at their awaits            *)
(*   SpecStartup      the process from module load to listening            *)
(***************************************************************************)
EXTENDS Integers, Sequences, FiniteSets, TLC

\* ------------------------------------------------------------------ bounds

\* Telegram account ids that send messages and may be group members.
MaxAccount == 2

Accounts == 1..MaxAccount

\* ctx.from?.id of an update without a sender: a falsy value (!userId).
NoUser == 0

\* -------------------------------------------------------------------- texts

NoEmail == << >>

EmailLower == <<"a", "@", "b", ".", "c">>
EmailUpper == <<"A", "@", "b", ".", "c">>
EmailPadded == <<" ", "A", "@", "b", ".", "c", " ">>
EmailOther == <<"x", "@", "y", ".", "z">>
TextPlain == <<"h", "i">>
TextDot == <<"h", ".", "i">>
TextUnknownCommand == <<"/", "f", "o", "o">>
TextStart == <<"/", "s", "t", "a", "r", "t">>
TextEmailCommand == <<"/", "e", "m", "a", "i", "l">>

\* The message texts the accounts send.
Texts ==
    {EmailLower, EmailPadded, TextPlain, TextDot, TextUnknownCommand,
     TextStart, TextEmailCommand}

\* SQL LOWER() / JS case folding of one character.
LowerChar(c) ==
    CASE c = "A" -> "a"
      [] c = "B" -> "b"
      [] c = "C" -> "c"
      [] c = "X" -> "x"
      [] c = "Y" -> "y"
      [] c = "Z" -> "z"
      [] OTHER -> c

\* SQL LOWER(text).
LOWER(s) == [i \in 1..Len(s) |-> LowerChar(s[i])]

\* String.prototype.trim: leading and trailing white space removed.
RECURSIVE TrimLeft(_)
TrimLeft(s) ==
    IF s # << >> /\ Head(s) = " " THEN TrimLeft(Tail(s)) ELSE s

RECURSIVE TrimRight(_)
TrimRight(s) ==
    IF s # << >> /\ s[Len(s)] = " " THEN TrimRight(SubSeq(s, 1, Len(s) - 1)) ELSE s

trim(s) == TrimRight(TrimLeft(s))

\* String.prototype.includes for a one-character needle.
includes(s, c) == \E i \in 1..Len(s) : s[i] = c

\* String.prototype.startsWith.
startsWith(s, prefix) ==
    /\ Len(s) >= Len(prefix)
    /\ SubSeq(s, 1, Len(prefix)) = prefix

\* text.includes("@") && text.includes(".")
isEmail(text) == includes(text, "@") /\ includes(text, ".")

\* Telegraf's command filter: the message starts with the bot command
\* /name, alone or followed by a space (its bot_command entity at offset 0).
IsCommand(text, name) ==
    /\ startsWith(text, <<"/">> \o name)
    /\ \/ Len(text) = Len(name) + 1
       \/ text[Len(name) + 2] = " "

\* ------------------------------------------------------- the Identity Store

\* Table telegram_users: its rows in heap order (the order a SELECT without
\* ORDER BY scans them).  telegram_id is the PRIMARY KEY, email is UNIQUE.
NoRows == << >>

Row(id, email) == [telegram_id |-> id, email |-> email]

\* The query with a WHERE clause that matches no row.
getEmailByUserNoMatch(table, telegramId) ==
    LET rows == SelectSeq(table, LAMBDA r : r.telegram_id = NoUser)
    IN  IF rows = << >> THEN NoEmail ELSE rows[1].email

\* SELECT email FROM telegram_users WHERE telegram_id = $1; rows[0]?.email || null
getEmailByUser(table, telegramId) ==
    LET rows == SelectSeq(table, LAMBDA r : r.telegram_id = telegramId)
    IN  IF rows = << >> THEN NoEmail ELSE rows[1].email

\* The query comparing the emails as they are: WHERE email = $1.
getTelegramIdByEmailExact(table, email) ==
    LET rows == SelectSeq(table, LAMBDA r : r.email = email)
    IN  IF rows = << >> THEN NoUser ELSE rows[1].telegram_id

\* The query with its WHERE clause lost: the first row of the table.
getTelegramIdByEmailAnyRow(table, email) ==
    IF table = << >> THEN NoUser ELSE table[1].telegram_id

\* SELECT telegram_id ... WHERE LOWER(email) = LOWER($1); rows[0]?.telegram_id || null
getTelegramIdByEmail(table, email) ==
    LET rows == SelectSeq(table, LAMBDA r : LOWER(r.email) = LOWER(email))
    IN  IF rows = << >> THEN NoUser ELSE rows[1].telegram_id

\* The table created without UNIQUE on email.
EmailNeverTaken(table, telegramId, email) == FALSE

\* The UNIQUE index on email: another row already holds exactly this email.
EmailTaken(table, telegramId, email) ==
    \E i \in 1..Len(table) :
        table[i].email = email /\ table[i].telegram_id # telegramId

\* INSERT ... ON CONFLICT (telegram_id) DO UPDATE SET email = EXCLUDED.email.
\* ok = FALSE is the unique-email violation: the statement throws and the
\* table is left as it was.
insertOrUpdateUser(table, telegramId, email) ==
    IF EmailTaken(table, telegramId, email)
    THEN [ok |-> FALSE, table |-> table]
    ELSE IF \E i \in 1..Len(table) : table[i].telegram_id = telegramId
         THEN [ok |-> TRUE,
               table |-> [i \in 1..Len(table) |->
                            IF table[i].telegram_id = telegramId
                            THEN Row(telegramId, email)
                            ELSE table[i]]]
         ELSE [ok |-> TRUE, table |-> Append(table, Row(telegramId, email))]

\* ---------------------------------------------------- the Membership Enforcer

\* What the Bot API can answer to banChatMember: USER_NOT_PARTICIPANT only
\* for an account that is not in the group.
BanAnswers(telegramId, inGroup) ==
    IF telegramId \in inGroup
    THEN {"ok", "error"}
    ELSE {"ok", "not_participant", "error"}

UnbanAnswers == {"ok", "error"}

\* The catch of removeUserFromGroup in part_000: USER_NOT_PARTICIPANT is
\* warned about, anything else is an error.
ClassifyIndex(answer) ==
    IF answer = "not_participant" THEN "not_a_member" ELSE "failed"

\* The catch of removeUserFromGroup in app.js: every error is logged as a
\* failure.
ClassifyApp(answer) == "failed"

Classify(b, answer) ==
    IF b = "index" THEN ClassifyIndex(answer) ELSE ClassifyApp(answer)

\* removeUserFromGroup: banChatMember, then unbanChatMember; every error is
\* caught and logged.  The result carries the calls issued, the logged
\* outcome and the group afterwards.
removeUserFromGroup(b, telegramId, inGroup, blocked, banAnswer, unbanAnswer) ==
    IF banAnswer # "ok"
    THEN [bans |-> <<telegramId>>, unbans |-> << >>,
          outcome |-> Classify(b, banAnswer),
          members |-> inGroup, banned |-> blocked]
    ELSE IF unbanAnswer # "ok"
         THEN [bans |-> <<telegramId>>, unbans |-> <<telegramId>>,
               outcome |-> Classify(b, unbanAnswer),
               members |-> inGroup \ {telegramId},
               banned |-> blocked \cup {telegramId}]
         ELSE [bans |-> <<telegramId>>, unbans |-> <<telegramId>>,
               outcome |-> "removed",
               members |-> inGroup \ {telegramId},
               banned |-> blocked \ {telegramId}]

\* ------------------------------------------------------ the Event Reconciler

\* The list the handler tests event.type against.
RevokingTypes ==
    <<"invoice.payment_failed", "customer.subscription.deleted",
      "charge.failed", "charge.dispute.created">>

\* The list with its last entry lost.
IsRevokingShort(type) ==
    \E i \in 1..(Len(RevokingTypes) - 1) : RevokingTypes[i] = type

\* The list with a type too many.
IsRevokingWide(type) ==
    \/ \E i \in 1..Len(RevokingTypes) : RevokingTypes[i] = type
    \/ type = "checkout.session.completed"

\* [...].includes(event.type)
IsRevoking(type) == \E i \in 1..Len(RevokingTypes) : RevokingTypes[i] = type

\* The event types delivered.
EventTypes ==
    {"invoice.payment_failed", "charge.dispute.created",
     "checkout.session.completed"}

NoCustomer == "none"

\* The payment provider's customers: stripe.customers.retrieve(id).email.
StripeCustomerEmail(customer) ==
    IF customer = "cus_mail" THEN EmailUpper ELSE NoEmail

\* data.object of the events delivered: customer_email and customer.
Payloads ==
    {[customer_email |-> EmailLower, customer |-> NoCustomer],
     [customer_email |-> EmailOther, customer |-> NoCustomer],
     [customer_email |-> EmailLower, customer |-> "cus_mail"],
     [customer_email |-> NoEmail, customer |-> "cus_mail"],
     [customer_email |-> NoEmail, customer |-> "cus_nomail"],
     [customer_email |-> NoEmail, customer |-> NoCustomer]}

\* A delivery to POST /webhook: the body's event, whether its signature
\* verifies against STRIPE_WEBHOOK_SECRET and whether the body is JSON.
Event(t, p, sv) ==
    [type |-> t, customer_email |-> p.customer_email, customer |-> p.customer,
     sigValid |-> sv, jsonOk |-> TRUE]

\* A body that is not JSON: it carries no event and no valid signature.
Garbage ==
    [type |-> "", customer_email |-> NoEmail, customer |-> NoCustomer,
     sigValid |-> FALSE, jsonOk |-> FALSE]

\* The deliveries made: the payment provider's events, forged events (a
\* signature that does not verify) and a body that is not JSON.
Deliveries ==
    {Event(t, p, TRUE) : t \in EventTypes, p \in Payloads}
    \cup
    {Event(t, [customer_email |-> EmailLower, customer |-> NoCustomer], FALSE) :
        t \in EventTypes}
    \cup {Garbage}

\* The event constructed from the body with its signature left unchecked.
constructEventLax(d) == d.jsonOk

\* stripe.webhooks.constructEvent: throws unless the signature verifies.
constructEvent(d) == d.sigValid /\ d.jsonOk

\* JSON.parse(req.body.toString()): throws on a body that is not JSON.
JSONparse(d) == d.jsonOk

\* The customer retrieved whenever the payload names one, customer_email
\* present or not.
ResolveEmailEager(d, retrieveAnswer) ==
    IF d.customer # NoCustomer
    THEN [email |-> IF d.customer_email # NoEmail THEN d.customer_email
                    ELSE IF retrieveAnswer = "ok"
                         THEN StripeCustomerEmail(d.customer)
                         ELSE NoEmail,
          retrieves |-> 1]
    ELSE [email |-> d.customer_email, retrieves |-> 0]

\* let email = dataObject.customer_email; if (!email && dataObject.customer)
\* the customer is retrieved, and a failure of that call is caught.
ResolveEmail(d, retrieveAnswer) ==
    IF d.customer_email # NoEmail
    THEN [email |-> d.customer_email, retrieves |-> 0]
    ELSE IF d.customer # NoCustomer
         THEN [email |-> IF retrieveAnswer = "ok"
                         THEN StripeCustomerEmail(d.customer)
                         ELSE NoEmail,
               retrieves |-> 1]
         ELSE [email |-> NoEmail, retrieves |-> 0]

\* What a handler run leaves behind when it does nothing.
Idle(table, inGroup, blocked) ==
    [status |-> 0, email |-> NoEmail, retrieves |-> 0, reads |-> 0,
     storeFault |-> FALSE, telegramId |-> NoUser, bans |-> << >>,
     unbans |-> << >>, outcome |-> "none",
     table |-> table, members |-> inGroup, banned |-> blocked]

\* The revoke skipped for an account that is not in the group.
RevokedIfMember(b, base, telegramId, env) ==
    LET k == removeUserFromGroup(b, telegramId, base.members, base.banned,
                                 env.ban, env.unban)
    IN  IF telegramId \notin base.members
        THEN base
        ELSE [base EXCEPT !.bans = k.bans, !.unbans = k.unbans,
                          !.outcome = k.outcome, !.members = k.members,
                          !.banned = k.banned]

\* The revoke that also drops the account's row.
RevokedAndUnlinked(b, base, telegramId, env) ==
    LET k == removeUserFromGroup(b, telegramId, base.members, base.banned,
                                 env.ban, env.unban)
    IN  [base EXCEPT !.bans = k.bans, !.unbans = k.unbans,
                     !.outcome = k.outcome, !.members = k.members,
                     !.banned = k.banned,
                     !.table = SelectSeq(base.table,
                                 LAMBDA row : row.telegram_id # telegramId)]

\* The revoke skipped for an account that is banned already.
RevokedUnlessBanned(b, base, telegramId, env) ==
    LET k == removeUserFromGroup(b, telegramId, base.members, base.banned,
                                 env.ban, env.unban)
    IN  IF telegramId \in base.banned
        THEN base
        ELSE [base EXCEPT !.bans = k.bans, !.unbans = k.unbans,
                          !.outcome = k.outcome, !.members = k.members,
                          !.banned = k.banned]

\* The handler's tail once an account id is known: the revoke and its result.
Revoked(b, base, telegramId, env) ==
    LET k == removeUserFromGroup(b, telegramId, base.members, base.banned,
                                 env.ban, env.unban)
    IN  [base EXCEPT !.bans = k.bans, !.unbans = k.unbans,
                     !.outcome = k.outcome, !.members = k.members,
                     !.banned = k.banned]

\* app.post("/webhook") of part_000.  Only constructEvent has its own catch
\* (400); every other throw reaches the outer catch (500).
webhookIndex(verify, d, env, table, inGroup, blocked) ==
    LET idle == Idle(table, inGroup, blocked)
        r == ResolveEmail(d, env.retrieve)
        telegramId == getTelegramIdByEmail(table, r.email)
        resolved == [idle EXCEPT !.email = r.email, !.retrieves = r.retrieves]
        looked == [resolved EXCEPT !.reads = 1, !.telegramId = telegramId]
    IN  IF verify /\ ~constructEvent(d)
        THEN [idle EXCEPT !.status = 400]
        ELSE IF ~verify /\ ~JSONparse(d)
        THEN [idle EXCEPT !.status = 500]
        ELSE IF r.email = NoEmail
        THEN [resolved EXCEPT !.status = 200]
        ELSE IF env.store # "ok"
        THEN [resolved EXCEPT !.reads = 1, !.storeFault = TRUE, !.status = 500]
        ELSE IF telegramId = NoUser
        THEN [looked EXCEPT !.status = 200]
        ELSE IF IsRevoking(d.type)
        THEN [Revoked("index", looked, telegramId, env) EXCEPT !.status = 200]
        ELSE [looked EXCEPT !.status = 200]

\* app.post("/webhook") of app.js.  constructEvent and JSON.parse share one
\* catch (400); the store lookup is made for a revoking type only, and its
\* throw is caught by nothing: the async handler's promise rejects, and the
\* request gets no response (status 0) or the framework's own 500.
webhookApp(verify, d, env, table, inGroup, blocked) ==
    LET idle == Idle(table, inGroup, blocked)
        r == ResolveEmail(d, env.retrieve)
        telegramId == getTelegramIdByEmail(table, r.email)
        resolved == [idle EXCEPT !.email = r.email, !.retrieves = r.retrieves]
        looked == [resolved EXCEPT !.reads = 1, !.telegramId = telegramId]
    IN  IF ~(IF verify THEN constructEvent(d) ELSE JSONparse(d))
        THEN [idle EXCEPT !.status = 400]
        ELSE IF ~(IsRevoking(d.type) /\ r.email # NoEmail)
        THEN [resolved EXCEPT !.status = 200]
        ELSE IF env.store # "ok"
        THEN [resolved EXCEPT !.reads = 1, !.storeFault = TRUE,
                              !.status = env.unhandled]
        ELSE IF telegramId = NoUser
        THEN [looked EXCEPT !.status = 200]
        ELSE [Revoked("app", looked, telegramId, env) EXCEPT !.status = 200]

webhook(b, verify, d, env, table, inGroup, blocked) ==
    IF b = "index"
    THEN webhookIndex(verify, d, env, table, inGroup, blocked)
    ELSE webhookApp(verify, d, env, table, inGroup, blocked)

\* ----------------------------------------------------------- the Linking Flow

\* What a bot handler leaves behind when it does nothing: handleUpdate
\* resolves and the update is answered 200 OK.
Quiet(table) ==
    [status |-> 200, reply |-> "none", replyEmail |-> NoEmail, sent |-> FALSE,
     reads |-> 0, writes |-> 0, table |-> table]

\* ctx.reply(message): the message reaches the user, or the Bot API call
\* throws, handleUpdate rejects and the update is answered 400.
Reply(base, message, email, replyAnswer) ==
    IF replyAnswer = "ok"
    THEN [base EXCEPT !.reply = message, !.replyEmail = email, !.sent = TRUE]
    ELSE [base EXCEPT !.reply = message, !.replyEmail = email, !.status = 400]

\* A store call whose error is swallowed: the update is answered as if
\* nothing had failed.
Swallowed(base) == base

\* A store call that throws: handleUpdate rejects, nothing is replied.
Thrown(base) == [base EXCEPT !.status = 400]

\* bot.start
onStart(userId, env, table) ==
    LET email == getEmailByUser(table, userId)
        read == [Quiet(table) EXCEPT !.reads = 1]
    IN  IF userId = NoUser THEN Quiet(table)
        ELSE IF env.read # "ok" THEN Thrown(read)
        ELSE IF email # NoEmail
        THEN Reply(read, "start_linked", email, env.reply)
        ELSE Reply(read, "hello", NoEmail, env.reply)

\* bot.command("email")
onEmailCommand(userId, env, table) ==
    LET email == getEmailByUser(table, userId)
        read == [Quiet(table) EXCEPT !.reads = 1]
    IN  IF userId = NoUser THEN Quiet(table)
        ELSE IF env.read # "ok" THEN Thrown(read)
        ELSE IF email # NoEmail
        THEN Reply(read, "your_email", email, env.reply)
        ELSE Reply(read, "no_email", NoEmail, env.reply)

\* The text handler with the link looked up before the email format check:
\* a linked account is told "already linked" whatever it sends.
onTextLinkedFirst(userId, raw, env, table) ==
    LET text == trim(raw)
        existing == getEmailByUser(table, userId)
        read == [Quiet(table) EXCEPT !.reads = 1]
        w == insertOrUpdateUser(table, userId, text)
        written == [read EXCEPT !.writes = 1, !.table = w.table]
    IN  IF userId = NoUser
        THEN Reply(Quiet(table), "unidentified", NoEmail, env.reply)
        ELSE IF startsWith(text, <<"/">>) THEN Quiet(table)
        ELSE IF env.read # "ok" THEN Thrown(read)
        ELSE IF existing # NoEmail
        THEN Reply(read, "already", existing, env.reply)
        ELSE IF ~isEmail(text)
        THEN Reply(read, "guidance", NoEmail, env.reply)
        ELSE IF env.write # "ok" \/ ~w.ok
        THEN Thrown([read EXCEPT !.writes = 1])
        ELSE Reply(written, "linked", text, env.reply)

\* bot.on("text")
onText(userId, raw, env, table) ==
    LET text == trim(raw)
        existing == getEmailByUser(table, userId)
        read == [Quiet(table) EXCEPT !.reads = 1]
        w == insertOrUpdateUser(table, userId, text)
        written == [read EXCEPT !.writes = 1, !.table = w.table]
    IN  IF userId = NoUser
        THEN Reply(Quiet(table), "unidentified", NoEmail, env.reply)
        ELSE IF startsWith(text, <<"/">>) THEN Quiet(table)
        ELSE IF ~isEmail(text)
        THEN Reply(Quiet(table), "guidance", NoEmail, env.reply)
        ELSE IF env.read # "ok" THEN Thrown(read)
        ELSE IF existing # NoEmail
        THEN Reply(read, "already", existing, env.reply)
        ELSE IF env.write # "ok" \/ ~w.ok
        THEN Thrown([read EXCEPT !.writes = 1])
        ELSE Reply(written, "linked", text, env.reply)

\* bot.handleUpdate for a text message: Telegraf runs the first handler
\* whose filter matches, in the order the handlers were registered.
handleUpdate(userId, raw, env, table) ==
    IF IsCommand(raw, <<"s", "t", "a", "r", "t">>)
    THEN onStart(userId, env, table)
    ELSE IF IsCommand(raw, <<"e", "m", "a", "i", "l">>)
    THEN onEmailCommand(userId, env, table)
    ELSE onText(userId, raw, env, table)

\* --------------------------------------------------------- the admin listing

\* A token that is not there: req.query.token of a request without one,
\* process.env.DASHBOARD_ACCESS_TOKEN when the variable is not set.
NoToken == "undefined"

\* req.query.token of the requests made.
Tokens == {NoToken, "secret", "guess"}

\* req.query.order of the requests made.
Orders == {NoToken, "asc", "desc"}

Reverse(s) == [i \in 1..Len(s) |-> s[Len(s) + 1 - i]]

\* token !== process.env.DASHBOARD_ACCESS_TOKEN
Forbidden(token, configured) == token # configured

\* The columns of telegram_users.  initDb creates the table with telegram_id
\* and email only (CREATE TABLE IF NOT EXISTS); a joined_at column is there
\* only when the table existed, with that column, before the first start.
Created == "telegram_id, email"
Schemas == {Created, "telegram_id, email, joined_at"}
HasJoinedAt(columns) == columns # Created

\* app.get("/dashboard") of part_000: the token gate, then the listing query
\* SELECT * FROM telegram_users ORDER BY joined_at in a try whose catch
\* answers 500.  The query throws when the store fails and when the table has
\* no joined_at column.  insertOrUpdateUser never writes joined_at, so where
\* the column exists its values follow the order in which the rows were
\* inserted: the rows come in that order, or the reverse for order=desc.
dashboard(token, order, configured, queryAnswer, columns, table) ==
    LET sortOrder == IF order = "desc" THEN "DESC" ELSE "ASC"
        refused == [status |-> 403, reads |-> 0, sortOrder |-> "none",
                    rows |-> NoRows, table |-> table]
    IN  IF Forbidden(token, configured)
        THEN refused
        ELSE IF queryAnswer # "ok" \/ ~HasJoinedAt(columns)
        THEN [refused EXCEPT !.status = 500, !.reads = 1,
                             !.sortOrder = sortOrder]
        ELSE [refused EXCEPT !.status = 200, !.reads = 1,
                             !.sortOrder = sortOrder,
                             !.rows = IF sortOrder = "DESC"
                                      THEN Reverse(table) ELSE table]

\* ----------------------------------------------------------------- startup

\* The settings the module checks when it is loaded.
Required ==
    {"TELEGRAM_BOT_TOKEN", "RENDER_URL", "STRIPE_SECRET_KEY",
     "STRIPE_WEBHOOK_SECRET", "DATABASE_URL", "TELEGRAM_GROUP_ID"}

\* A validation that forgets the group id.
MissingRequiredButGroup(set) ==
    \E name \in Required \ {"TELEGRAM_GROUP_ID"} : name \notin set

\* if (!TELEGRAM_BOT_TOKEN || !RENDER_URL || ... || !TELEGRAM_GROUP_ID):
\* set is the settings that have a non-empty value.
MissingRequired(set) == \E name \in Required : name \notin set

\* console.error / console.log lines of the startup.
LogMissing == "Missing required env vars"
LogWebhookSet == "Telegram webhook set"
LogWebhookFailed == "Failed to set Telegram webhook"
LogRunning == "Server running on port"
LogFailedToStart == "Failed to start server"
LogListenError == "listen error"

\* ------------------------------------------------------------------- state

VARIABLES
    build,            \* "index" (part_000) or "app" (app.js): the server deployed
    verifySignature,  \* VERIFY_STRIPE_SIGNATURE === "true"
    telegram_users,   \* the table's rows
    members,          \* the accounts in the group TELEGRAM_GROUP_ID
    banned,           \* the accounts banned from the group
    last,             \* the request handled last: what came in, what went out
    handlers,         \* the text handlers suspended at an await, by slot
    dashboardToken,   \* process.env.DASHBOARD_ACCESS_TOKEN
    schema,           \* the columns of telegram_users
    processEnv,       \* the required settings that have a value
    startup,          \* where the process is, from module load to listening
    tableCreated,     \* initDb's CREATE TABLE IF NOT EXISTS has succeeded
    registration,     \* bot.telegram.setWebhook: "none", "set" or "failed"
    console           \* the startup lines written to the console

vars ==
    <<build, verifySignature, telegram_users, members, banned, last, handlers,
      dashboardToken, schema, processEnv, startup, tableCreated,
      registration, console>>

startupVars == <<processEnv, startup, tableCreated, registration, console>>

\* app.listen has been called and the port is bound.
Listening == startup = "serving"

\* The process after a startup in which nothing failed.
Started ==
    /\ processEnv = Required
    /\ startup = "serving"
    /\ tableCreated = TRUE
    /\ registration = "set"
    /\ console = {LogWebhookSet, LogRunning}

Builds == {"index", "app"}

Answers == {"ok", "fail"}

\* Every dependency answers.
Calm ==
    [retrieve |-> "ok", store |-> "ok", ban |-> "ok", unban |-> "ok",
     unhandled |-> 0]

BotCalm == [read |-> "ok", write |-> "ok", reply |-> "ok"]

NoDup == [seen |-> FALSE]

\* The text handlers that can be in flight at a time.
MaxInFlight == 2

Slots == 1..MaxInFlight

\* A slot with no handler in it.
Free ==
    [pc |-> "free", userId |-> NoUser, text |-> NoEmail, existing |-> NoEmail,
     reply |-> "none", replyEmail |-> NoEmail, sent |-> FALSE,
     wrote |-> FALSE, status |-> 0]

Init ==
    /\ build \in Builds
    /\ verifySignature \in BOOLEAN
    /\ telegram_users = NoRows
    /\ members = {}
    /\ banned = {}
    /\ last = [kind |-> "none"]
    /\ handlers = [h \in Slots |-> Free]
    /\ dashboardToken = NoToken
    /\ schema = Created
    /\ Started

\* What a delivery's run answered, for a redelivery to be compared with.
Summary(run) ==
    [seen |-> TRUE, status |-> run.res.status, bans |-> run.res.bans,
     outcome |-> run.res.outcome, retrieve |-> run.env.retrieve,
     store |-> run.env.store, table |-> run.res.table]

\* One delivery handled to its response.  The answers of the payment
\* provider, the store and the Bot API are the environment's; each is drawn
\* only when the handler makes the call.
Deliver(d, dup) ==
    LET run(env) == webhook(build, verifySignature, d, env,
                            telegram_users, members, banned)
        p0 == run(Calm)
    IN
    \E retrieve \in (IF p0.retrieves = 1 THEN Answers ELSE {"ok"}) :
      LET e1 == [Calm EXCEPT !.retrieve = retrieve]
          p1 == run(e1)
      IN
      \E store \in (IF p1.reads = 1 THEN Answers ELSE {"ok"}) :
        LET e2 == [e1 EXCEPT !.store = store]
            p2 == run(e2)
        IN
        \E ban \in (IF p2.bans # << >>
                    THEN BanAnswers(p2.telegramId, members) ELSE {"ok"}) :
          \E unban \in (IF p2.bans # << >> /\ ban = "ok"
                        THEN UnbanAnswers ELSE {"ok"}) :
            \E unhandled \in (IF build = "app" /\ p2.storeFault
                              THEN {0, 500} ELSE {0}) :
              LET env == [e2 EXCEPT !.ban = ban, !.unban = unban,
                                    !.unhandled = unhandled]
                  res == run(env)
              IN  /\ telegram_users' = res.table
                  /\ members' = res.members
                  /\ banned' = res.banned
                  /\ last' = [kind |-> "stripe", req |-> d, env |-> env,
                              res |-> res, dup |-> dup,
                              before |-> telegram_users,
                              inGroup |-> members, blocked |-> banned]
                  /\ UNCHANGED <<build, verifySignature, dashboardToken, schema, startupVars,
                                 handlers>>

\* POST /webhook: a delivery arrives.
StripeWebhook ==
    /\ Listening
    /\ last.kind = "none"
    /\ \E d \in Deliveries : Deliver(d, NoDup)

\* POST /webhook: the payment provider delivers the event just handled once
\* more (at-least-once delivery).
StripeRedelivery ==
    /\ Listening
    /\ last.kind = "stripe"
    /\ Deliver(last.req, Summary(last))

\* POST /telegram: one text message handled to its response.
TelegramUpdate ==
    /\ Listening
    /\ last.kind = "none"
    /\ \E userId \in Accounts \cup {NoUser}, raw \in Texts :
         LET run(env) == handleUpdate(userId, raw, env, telegram_users)
             p0 == run(BotCalm)
         IN
         \E read \in (IF p0.reads = 1 THEN Answers ELSE {"ok"}) :
           LET e1 == [BotCalm EXCEPT !.read = read]
               p1 == run(e1)
           IN
           \E write \in (IF p1.writes = 1 THEN Answers ELSE {"ok"}) :
             LET e2 == [e1 EXCEPT !.write = write]
                 p2 == run(e2)
             IN
             \E reply \in (IF p2.reply # "none" THEN Answers ELSE {"ok"}) :
               LET env == [e2 EXCEPT !.reply = reply]
                   res == run(env)
               IN  /\ telegram_users' = res.table
                   /\ last' = [kind |-> "text",
                               req |-> [userId |-> userId, text |-> raw],
                               env |-> env, res |-> res,
                               before |-> telegram_users]
                   /\ UNCHANGED <<build, verifySignature, dashboardToken, schema, startupVars,
                                  members, banned, handlers>>

\* An account that is not banned joins the group through the invite link.
JoinGroup ==
    /\ last.kind = "none"
    /\ \E a \in Accounts :
         /\ a \notin members
         /\ a \notin banned
         /\ members' = members \cup {a}
         /\ UNCHANGED <<build, verifySignature, dashboardToken, schema, startupVars,
                        telegram_users, banned, last, handlers>>

\* GET /dashboard: one request handled to its response.  app.js has no such
\* route.  (The route is part of SpecAdmin below.)
Dashboard ==
    /\ Listening
    /\ last.kind = "none"
    /\ build = "index"
    /\ \E token \in Tokens, order \in Orders :
         LET run(answer) == dashboard(token, order, dashboardToken, answer,
                                      schema, telegram_users)
         IN  \E query \in (IF run("ok").reads = 1 THEN Answers ELSE {"ok"}) :
               /\ telegram_users' = run(query).table
               /\ last' = [kind |-> "dashboard",
                           req |-> [token |-> token, order |-> order],
                           env |-> [query |-> query], res |-> run(query),
                           before |-> telegram_users]
               /\ UNCHANGED <<build, verifySignature, dashboardToken, schema, startupVars,
                              members, banned, handlers>>

\* The response has gone out and the request is over: the server waits for
\* the next one.
Complete ==
    /\ last.kind # "none"
    /\ last' = [kind |-> "none"]
    /\ UNCHANGED <<build, verifySignature, dashboardToken, schema, startupVars,
                   telegram_users, members, banned, handlers>>

Next ==
    \/ StripeWebhook
    \/ StripeRedelivery
    \/ TelegramUpdate
    \/ JoinGroup
    \/ Complete

\* The message and payment routes, DASHBOARD_ACCESS_TOKEN not set.
Spec == Init /\ [][Next]_vars

\* ------------------------------------------------ the routes and the listing

\* DASHBOARD_ACCESS_TOKEN is optional: set, or not set.  Only part_000 reads
\* it.  The table is the one initDb created, or one that was in the shared
\* database before, with a joined_at column, which CREATE TABLE IF NOT EXISTS
\* leaves as it is.
InitAdmin ==
    /\ build \in Builds
    /\ verifySignature \in BOOLEAN
    /\ telegram_users = NoRows
    /\ members = {}
    /\ banned = {}
    /\ last = [kind |-> "none"]
    /\ handlers = [h \in Slots |-> Free]
    /\ dashboardToken \in (IF build = "index" THEN {NoToken, "secret"}
                                              ELSE {NoToken})
    /\ schema \in (IF build = "index" THEN Schemas ELSE {Created})
    /\ Started

NextAdmin ==
    \/ StripeWebhook
    \/ TelegramUpdate
    \/ JoinGroup
    \/ Dashboard
    \/ Complete

\* Every route, each request handled once, with the admin token set or not.
SpecAdmin == InitAdmin /\ [][NextAdmin]_vars

\* --------------------------------------------- payment events in any order

NextOrder ==
    \/ StripeWebhook
    \/ TelegramUpdate
    \/ JoinGroup
    \/ Complete

\* The message and payment routes, each request handled once.
SpecOrder == Init /\ [][NextOrder]_vars

\* ------------------------------------------- text handlers run concurrently
\*
\* POST /telegram is served by an async route: a handler runs until it awaits
\* (the link read, the upsert, the reply) and another request's handler runs
\* in between.  Each action below is one handler's run from one await to the
\* next; the store and the Bot API answer every call.

\* The texts sent while another message is in flight.
RaceTexts == {EmailLower, EmailOther, EmailPadded, TextPlain, TextUnknownCommand}

\* bot.on("text") up to its first await: the checks on the sender and the
\* text, made as the update arrives.
TextArrives(h) ==
    /\ Listening
    /\ handlers[h].pc = "free"
    /\ \E userId \in Accounts, raw \in RaceTexts :
         LET text == trim(raw)
             begun == [Free EXCEPT !.userId = userId, !.text = text]
         IN  handlers' =
               [handlers EXCEPT ![h] =
                  IF startsWith(text, <<"/">>)
                  THEN [begun EXCEPT !.pc = "done", !.status = 200]
                  ELSE IF ~isEmail(text)
                  THEN [begun EXCEPT !.pc = "reply", !.reply = "guidance"]
                  ELSE [begun EXCEPT !.pc = "read"]]
    /\ UNCHANGED <<build, verifySignature, dashboardToken, schema, startupVars,
                   telegram_users, members, banned, last>>

\* const existing = await getEmailByUser(userId), and the branch on it.
ReadLink(h) ==
    /\ handlers[h].pc = "read"
    /\ LET existing == getEmailByUser(telegram_users, handlers[h].userId)
       IN  handlers' =
             [handlers EXCEPT ![h] =
                IF existing # NoEmail
                THEN [@ EXCEPT !.pc = "reply", !.existing = existing,
                               !.reply = "already", !.replyEmail = existing]
                ELSE [@ EXCEPT !.pc = "write"]]
    /\ UNCHANGED <<build, verifySignature, dashboardToken, schema, startupVars,
                   telegram_users, members, banned, last>>

\* await insertOrUpdateUser(userId, text): the statement is atomic; when it
\* throws, handleUpdate rejects and the update is answered 400.
WriteLink(h) ==
    /\ handlers[h].pc = "write"
    /\ LET w == insertOrUpdateUser(telegram_users, handlers[h].userId,
                                   handlers[h].text)
       IN  /\ telegram_users' = w.table
           /\ handlers' =
                [handlers EXCEPT ![h] =
                   IF w.ok
                   THEN [@ EXCEPT !.pc = "reply", !.wrote = TRUE,
                                  !.reply = "linked",
                                  !.replyEmail = handlers[h].text]
                   ELSE [@ EXCEPT !.pc = "done", !.status = 400]]
    /\ UNCHANGED <<build, verifySignature, dashboardToken, schema, startupVars,
                   members, banned, last>>

\* await ctx.reply(...): the message is sent, handleUpdate resolves and the
\* update is answered 200.
SendReply(h) ==
    /\ handlers[h].pc = "reply"
    /\ handlers' = [handlers EXCEPT ![h] =
                      [@ EXCEPT !.pc = "done", !.sent = TRUE, !.status = 200]]
    /\ UNCHANGED <<build, verifySignature, dashboardToken, schema, startupVars,
                   telegram_users, members, banned, last>>

\* The response has gone out: the request is over.
Finish(h) ==
    /\ handlers[h].pc = "done"
    /\ handlers' = [handlers EXCEPT ![h] = Free]
    /\ UNCHANGED <<build, verifySignature, dashboardToken, schema, startupVars,
                   telegram_users, members, banned, last>>

NextInterleaved ==
    \E h \in Slots :
        \/ TextArrives(h)
        \/ ReadLink(h)
        \/ WriteLink(h)
        \/ SendReply(h)
        \/ Finish(h)

SpecInterleaved == Init /\ [][NextInterleaved]_vars

\* ------------------------------------------------- from module load to listen

\* The process is launched: any of the required settings may be missing.
\* Both builds start the same way.
InitStartup ==
    /\ build \in Builds
    /\ verifySignature = TRUE
    /\ telegram_users = NoRows
    /\ members = {}
    /\ banned = {}
    /\ last = [kind |-> "none"]
    /\ handlers = [h \in Slots |-> Free]
    /\ dashboardToken = NoToken
    /\ schema = Created
    /\ processEnv \in SUBSET Required
    /\ startup = "load"
    /\ tableCreated = FALSE
    /\ registration = "none"
    /\ console = {}

serverVars == <<build, verifySignature, telegram_users, members, banned, last,
                handlers, dashboardToken, schema>>

\* The module body: the settings are read and validated; the throw is not
\* caught, so the process ends before the routes and the startup function
\* exist.
LoadModule ==
    /\ startup = "load"
    /\ IF MissingRequired(processEnv)
       THEN /\ startup' = "exited"
            /\ console' = console \cup {LogMissing}
       ELSE /\ startup' = "initDb"
            /\ UNCHANGED console
    /\ UNCHANGED <<serverVars, processEnv, tableCreated, registration>>

\* await initDb(): pool.connect and the CREATE TABLE IF NOT EXISTS.  A
\* rejection reaches the catch of the startup function: process.exit(1).
InitDb ==
    /\ startup = "initDb"
    /\ \E answer \in Answers :
         IF answer = "ok"
         THEN /\ tableCreated' = TRUE
              /\ startup' = "setTelegramWebhook"
              /\ UNCHANGED console
         ELSE /\ startup' = "exited"
              /\ console' = console \cup {LogFailedToStart}
              /\ UNCHANGED tableCreated
    /\ UNCHANGED <<serverVars, processEnv, registration>>

\* await setTelegramWebhook(): its own try/catch logs a failure and returns.
SetTelegramWebhook ==
    /\ startup = "setTelegramWebhook"
    /\ \E answer \in Answers :
         /\ registration' = IF answer = "ok" THEN "set" ELSE "failed"
         /\ console' = console \cup {IF answer = "ok" THEN LogWebhookSet
                                                      ELSE LogWebhookFailed}
    /\ startup' = "listen"
    /\ UNCHANGED <<serverVars, processEnv, tableCreated>>

\* app.listen(PORT, ...): the port is bound and the callback logs, or the
\* server emits an error nobody handles and the process ends.
Listen ==
    /\ startup = "listen"
    /\ \E answer \in Answers :
         IF answer = "ok"
         THEN /\ startup' = "serving"
              /\ console' = console \cup {LogRunning}
         ELSE /\ startup' = "exited"
              /\ console' = console \cup {LogListenError}
    /\ UNCHANGED <<serverVars, processEnv, tableCreated, registration>>

NextStartup ==
    \/ LoadModule
    \/ InitDb
    \/ SetTelegramWebhook
    \/ Listen
    \/ TelegramUpdate
    \/ Complete

SpecStartup == InitStartup /\ [][NextStartup]_vars

\* ------------------------------------------------------------------ claims

\* The revoking set, as the specification lists it.
RevokingSet ==
    {"invoice.payment_failed", "customer.subscription.deleted",
     "charge.failed", "charge.dispute.created"}

\* Two letters that differ in case only.
CasePairs ==
    {<<"a", "A">>, <<"b", "B">>, <<"c", "C">>,
     <<"x", "X">>, <<"y", "Y">>, <<"z", "Z">>}

\* Two emails that are equal up to letter case.
SameUpToCase(s, t) ==
    /\ Len(s) = Len(t)
    /\ \A i \in 1..Len(s) :
         \/ s[i] = t[i]
         \/ <<s[i], t[i]>> \in CasePairs
         \/ <<t[i], s[i]>> \in CasePairs

\* The accounts a table links to an email equal to q up to letter case.
AccountsMatching(table, q) ==
    {table[i].telegram_id : i \in {j \in 1..Len(table) : SameUpToCase(table[j].email, q)}}

\* The emails a table stores for an account.
EmailsOf(table, id) ==
    {table[i].email : i \in {j \in 1..Len(table) : table[j].telegram_id = id}}

\* The delivery handled last passed the handler's first step: its signature
\* verified or, with verification disabled, its body parsed.
Passed ==
    IF verifySignature THEN last.req.sigValid /\ last.req.jsonOk ELSE last.req.jsonOk

\* The email of the delivery handled last: customer_email or, without it, the
\* email the customer lookup returned.
EventEmail ==
    IF last.req.customer_email # NoEmail THEN last.req.customer_email
    ELSE IF last.req.customer # NoCustomer /\ last.env.retrieve = "ok"
         THEN StripeCustomerEmail(last.req.customer)
         ELSE NoEmail

C3_BadSignatureRejected ==
    (last.kind = "stripe" /\ verifySignature /\ ~last.req.sigValid)
    => /\ last.res.status = 400
       /\ last.res.reads = 0
       /\ last.res.retrieves = 0
       /\ last.res.bans = << >>
       /\ last.res.unbans = << >>
       /\ telegram_users = last.before

\* C3's case: a forged revoking event for a linked email is rejected.
C3_Witness ==
    /\ last.kind = "stripe"
    /\ verifySignature
    /\ ~last.req.sigValid
    /\ last.req.type \in RevokingSet
    /\ AccountsMatching(last.before, last.req.customer_email) # {}
    /\ last.res.status = 400

\* C4 as claimed: an event that passed authentication/parsing is answered
\* 200 whatever the later steps do (customer lookup, store lookup, revoke),
\* and a body that could not be authenticated or parsed is answered with a
\* client-error status.
C4_AlwaysAcknowledges ==
    last.kind = "stripe"
    => IF Passed
       THEN last.res.status = 200
       ELSE last.res.status \in 400..499

C6_NotAMemberIsBenign ==
    ( /\ last.kind = "stripe"
      /\ last.res.bans # << >>
      /\ last.env.ban = "not_participant" )
    => /\ last.res.outcome = "not_a_member"
       /\ last.res.status = 200

\* A string holds the character.
HasChar(s, c) == \E i \in 1..Len(s) : s[i] = c

\* The text without its blanks: what an email sent with blanks around it is
\* stored as.
Unpadded(s) == SelectSeq(s, LAMBDA c : c # " ")

\* The number of rows a table holds for an account.
RowCount(table, id) ==
    Cardinality({i \in 1..Len(table) : table[i].telegram_id = id})

\* The accounts other than id that a table links to exactly this email.
OtherOwners(table, id, email) ==
    {table[i].telegram_id :
        i \in {j \in 1..Len(table) :
                 table[j].email = email /\ table[j].telegram_id # id}}

\* The message handled last is an email-like text (it holds '@' and '.', and
\* is no command) from an account, and the store and the Bot API answered.
EmailMessage ==
    /\ last.kind = "text"
    /\ last.req.userId # NoUser
    /\ HasChar(last.req.text, "@")
    /\ HasChar(last.req.text, ".")
    /\ Unpadded(last.req.text)[1] # "/"
    /\ last.env.read = "ok"
    /\ last.env.write = "ok"
    /\ last.env.reply = "ok"

\* C7 as claimed: an email-like message from an account that has no link
\* leaves exactly one link for the account and is answered with the
\* confirmation.
C7_EveryUnlinkedAccountLinks ==
    (EmailMessage /\ EmailsOf(last.before, last.req.userId) = {})
    => /\ RowCount(telegram_users, last.req.userId) = 1
       /\ last.res.reply = "linked"
       /\ last.res.sent

\* C7, amended: an email-like message from an account that has no link, with
\* an email that no other account has stored, leaves exactly one link for the
\* account, holding that email, and is answered with the confirmation; an
\* email-like message from an account that has a link leaves the table as it
\* was, with one row for the account and its email in place, and is answered
\* "already linked" naming the stored email.
C7_LinkOnceKeepFirst ==
    /\ ( /\ EmailMessage
         /\ EmailsOf(last.before, last.req.userId) = {}
         /\ OtherOwners(last.before, last.req.userId, Unpadded(last.req.text)) = {} )
       => /\ RowCount(telegram_users, last.req.userId) = 1
          /\ EmailsOf(telegram_users, last.req.userId) = {Unpadded(last.req.text)}
          /\ last.res.reply = "linked"
          /\ last.res.replyEmail = Unpadded(last.req.text)
          /\ last.res.sent
    /\ ( /\ EmailMessage
         /\ EmailsOf(last.before, last.req.userId) # {} )
       => /\ telegram_users = last.before
          /\ RowCount(telegram_users, last.req.userId) = 1
          /\ last.res.reply = "already"
          /\ {last.res.replyEmail} = EmailsOf(last.before, last.req.userId)
          /\ last.res.sent

\* C7's case: a linked account sends another email and is told it is already
\* linked to the first one.
C7_Witness ==
    /\ EmailMessage
    /\ EmailsOf(last.before, last.req.userId) # {}
    /\ Unpadded(last.req.text) \notin EmailsOf(last.before, last.req.userId)
    /\ last.res.reply = "already"
    /\ RowCount(telegram_users, last.req.userId) = 1

\* C8: getTelegramIdByEmail compares emails up to letter case: whenever the
\* handler has looked an email up, it got an account linked to an email equal
\* to the query up to case if there is one, and no account otherwise.
C8_LookupIgnoresCase ==
    (last.kind = "stripe" /\ last.res.reads = 1 /\ ~last.res.storeFault)
    => IF AccountsMatching(last.before, last.res.email) = {}
       THEN last.res.telegramId = NoUser
       ELSE last.res.telegramId \in AccountsMatching(last.before, last.res.email)

\* C8's case: an account linked with A@b.c is found by a lookup of a@b.c.
C8_Witness ==
    /\ last.kind = "stripe"
    /\ last.res.reads = 1
    /\ last.res.email = EmailLower
    /\ \E a \in Accounts :
         /\ EmailsOf(last.before, a) = {EmailUpper}
         /\ last.res.telegramId = a

\* C9: the table holds at most one email per account id and at most one
\* account id per email.
C9_OneToOne ==
    \A i, j \in 1..Len(telegram_users) :
        i # j => /\ telegram_users[i].telegram_id # telegram_users[j].telegram_id
                 /\ telegram_users[i].email # telegram_users[j].email

\* C9's case: with one account linked, another account sent the same email
\* and the table refused it.
C9_Witness ==
    /\ last.kind = "text"
    /\ last.res.writes = 1
    /\ last.env.write = "ok"
    /\ last.res.status = 400
    /\ OtherOwners(telegram_users, last.req.userId, Unpadded(last.req.text)) # {}
    /\ EmailsOf(telegram_users, last.req.userId) = {}

C11_NoEmailNoAction ==
    /\ (last.kind = "stripe" /\ Passed /\ EventEmail = NoEmail)
       => /\ last.res.status = 200
          /\ last.res.reads = 0
          /\ last.res.bans = << >>
          /\ last.res.unbans = << >>
          /\ telegram_users = last.before
    /\ last.kind = "stripe"
       => /\ last.res.retrieves \in {0, 1}
          /\ last.res.retrieves = 1
             => /\ last.req.customer_email = NoEmail
                /\ last.req.customer # NoCustomer

\* C11's case: a revoking event that names a customer whose email is linked,
\* the customer lookup fails, and the event is acknowledged with nothing done.
C11_Witness ==
    /\ last.kind = "stripe"
    /\ Passed
    /\ last.req.type \in RevokingSet
    /\ last.req.customer_email = NoEmail
    /\ last.req.customer = "cus_mail"
    /\ last.env.retrieve = "fail"
    /\ AccountsMatching(last.before, StripeCustomerEmail("cus_mail")) # {}
    /\ last.res.retrieves = 1
    /\ last.res.reads = 0
    /\ last.res.bans = << >>
    /\ last.res.status = 200

\* The write of the message handled last failed: the store did not answer
\* it, or another account owns the email and the unique index rejected it.
WriteFailed ==
    /\ last.kind = "text"
    /\ last.res.writes = 1
    /\ \/ last.env.write = "fail"
       \/ OtherOwners(last.before, last.req.userId, Unpadded(last.req.text)) # {}

\* C12: when the write of a linking message fails, no reply confirming a
\* link is sent, the table is as it was (the owner of the email keeps it, the
\* sender has no link) and the update request is answered with an error
\* status.
C12_FailedWriteNoConfirmation ==
    WriteFailed
    => /\ ~last.res.sent
       /\ last.res.reply # "linked"
       /\ telegram_users = last.before
       /\ EmailsOf(telegram_users, last.req.userId) = {}
       /\ \A a \in Accounts : EmailsOf(telegram_users, a) = EmailsOf(last.before, a)
       /\ last.res.status \in 400..599

\* C12's case: an unlinked account submits the email another account owns;
\* the store answers, the unique index rejects the insert.
C12_Witness ==
    /\ WriteFailed
    /\ last.env.write = "ok"
    /\ \E a \in Accounts :
         /\ a # last.req.userId
         /\ EmailsOf(telegram_users, a) = {Unpadded(last.req.text)}
    /\ EmailsOf(telegram_users, last.req.userId) = {}
    /\ ~last.res.sent
    /\ last.res.status = 400

\* C13 as claimed: a revoke issues the ban and then, for the same account,
\* the unban, and whenever a revoke that issued the ban has finished the
\* account is not banned from the group, also when one of the two calls
\* failed.
C13_KickNeverBans ==
    (last.kind = "stripe" /\ last.res.bans # << >>)
    => /\ Len(last.res.bans) = 1
       /\ last.res.unbans \in {<< >>, last.res.bans}
       /\ last.res.bans[1] \notin banned

\* The message handled last is a text that is no command, from an account,
\* and the Bot API delivered the reply.
PlainMessage ==
    /\ last.kind = "text"
    /\ last.req.userId # NoUser
    /\ Unpadded(last.req.text)[1] # "/"
    /\ last.env.reply = "ok"

\* The text passes the email heuristic: it holds '@' and '.'.
EmailLike(text) == HasChar(text, "@") /\ HasChar(text, ".")

\* C14 as claimed: a linked account is answered "already linked", with its
\* stored email, for every text that is no command, email-like or not, and
\* the table stays as it was; the guidance message goes only to an unlinked
\* account that sent a text that is neither email-like nor a command.
C14_LinkedAlwaysToldAlready ==
    /\ ( /\ PlainMessage
         /\ last.env.read = "ok"
         /\ EmailsOf(last.before, last.req.userId) # {} )
       => /\ last.res.reply = "already"
          /\ {last.res.replyEmail} = EmailsOf(last.before, last.req.userId)
          /\ last.res.sent
          /\ telegram_users = last.before
    /\ (last.kind = "text" /\ last.res.reply = "guidance")
       => /\ EmailsOf(last.before, last.req.userId) = {}
          /\ ~EmailLike(last.req.text)
          /\ Unpadded(last.req.text)[1] # "/"

\* C14, amended: a linked account is answered "already linked", with its
\* stored email, for every email-like text that is no command; a text that
\* is neither email-like nor a command is answered with the guidance
\* message, from a linked account as from an unlinked one, and without a
\* store read; neither changes the table, and the guidance message goes to
\* nothing but such a text.
C14_GuidanceBeforeLookup ==
    /\ ( /\ PlainMessage
         /\ EmailLike(last.req.text)
         /\ last.env.read = "ok"
         /\ EmailsOf(last.before, last.req.userId) # {} )
       => /\ last.res.reply = "already"
          /\ {last.res.replyEmail} = EmailsOf(last.before, last.req.userId)
          /\ last.res.sent
          /\ telegram_users = last.before
    /\ (PlainMessage /\ ~EmailLike(last.req.text))
       => /\ last.res.reply = "guidance"
          /\ last.res.sent
          /\ last.res.reads = 0
          /\ telegram_users = last.before
    /\ (last.kind = "text" /\ last.res.reply = "guidance")
       => /\ last.req.userId # NoUser
          /\ ~EmailLike(last.req.text)
          /\ Unpadded(last.req.text)[1] # "/"

\* C14's case: a linked account sends "hi" and gets the guidance message.
C14_Witness ==
    /\ PlainMessage
    /\ last.req.text = TextPlain
    /\ EmailsOf(last.before, last.req.userId) # {}
    /\ last.res.reply = "guidance"
    /\ last.res.sent
    /\ telegram_users = last.before

\* C15 as claimed: with the handlers of an account's messages interleaved at
\* their awaits, the account has one row at most, an email a handler wrote
\* for the account is the account's email ever after (a later write does not
\* replace it), and one reply at most confirms a new link for the account.
C15_ConcurrentLinkOnce ==
    \A a \in Accounts :
        /\ RowCount(telegram_users, a) <= 1
        /\ \A h \in Slots :
             (handlers[h].userId = a /\ handlers[h].wrote)
             => EmailsOf(telegram_users, a) = {handlers[h].text}
        /\ Cardinality({h \in Slots : /\ handlers[h].userId = a
                                      /\ handlers[h].reply = "linked"
                                      /\ handlers[h].sent}) <= 1

\* C16: in every step, the table changes only when the request handled is
\* an email-like text, no command, from an account that had no link (/start,
\* /email, other texts, texts from a linked account, payment events and the
\* admin listing leave it as it was), and every account that has a link
\* keeps it, with the same email.
C16_OnlyLinkingWrites ==
    [][ /\ telegram_users' # telegram_users
           => /\ last'.kind = "text"
              /\ last'.before = telegram_users
              /\ last'.req.userId # NoUser
              /\ EmailLike(last'.req.text)
              /\ Unpadded(last'.req.text)[1] # "/"
              /\ EmailsOf(telegram_users, last'.req.userId) = {}
        /\ \A a \in Accounts :
             EmailsOf(telegram_users, a) # {}
             => EmailsOf(telegram_users', a) = EmailsOf(telegram_users, a)
      ]_vars

\* C16's case: a revoke removed a linked account from the group and the
\* table is as it was, the link included.
C16_Witness ==
    /\ last.kind = "stripe"
    /\ last.res.outcome = "removed"
    /\ \E a \in Accounts :
         /\ last.res.bans = <<a>>
         /\ EmailsOf(telegram_users, a) # {}
    /\ telegram_users = last.before

\* A delivery handled by the deployed server.
Handled(d, env, table, inGroup, blocked) ==
    webhook(build, verifySignature, d, env, table, inGroup, blocked)

\* The answers the Bot API can give to the revoke of a run: <<ban, unban>>,
\* the unban being called after a ban that succeeded only.
BotAnswers(run, inGroup) ==
    IF run.bans = << >>
    THEN {<<"ok", "ok">>}
    ELSE {a \in BanAnswers(run.telegramId, inGroup) \X UnbanAnswers :
            a[1] = "ok" \/ a[2] = "ok"}

\* The events handled before or after the event handled last: a revoking
\* event with an email, a revoking event that names a customer only, and an
\* event of a type that does not revoke.
OtherEvents ==
    {Event("invoice.payment_failed",
           [customer_email |-> EmailLower, customer |-> NoCustomer], TRUE),
     Event("charge.dispute.created",
           [customer_email |-> NoEmail, customer |-> "cus_mail"], TRUE),
     Event("checkout.session.completed",
           [customer_email |-> EmailLower, customer |-> NoCustomer], TRUE)}

\* What is compared between the two orders: the removal calls, the
\* acknowledgment.
SameDecision(r, s) == r.bans = s.bans /\ r.status = s.status

\* A run with the Bot API's answers put in; a run that issues no ban calls
\* the Bot API not at all.
WithBot(d, env, probe, a, table, inGroup, blocked) ==
    IF probe.bans = << >>
    THEN probe
    ELSE Handled(d, [env EXCEPT !.ban = a[1], !.unban = a[2]],
                 table, inGroup, blocked)

\* C17: two payment events handled in either order get the same removal
\* calls and the same acknowledgments and leave the same table.  The event
\* handled last, d1, went first; each event d2 of OtherEvents is handled
\* after it, and the two are handled in the other order from where d1
\* started.  An event's customer and store lookups answer the same in both
\* orders; the Bot API answers each call as the group then allows.  (Both
\* orders' final tables are compared with one table, that of d2's run after
\* d1 before the Bot API is called.)
C17_OrderIndependent ==
    last.kind = "stripe"
    => \A d2 \in OtherEvents :
         \A pa0 \in {Handled(d2, Calm, telegram_users, members, banned)},
            pb0 \in {Handled(d2, Calm, last.before, last.inGroup,
                             last.blocked)} :
         \A retrieve \in (IF pa0.retrieves = 1 \/ pb0.retrieves = 1
                          THEN Answers ELSE {"ok"}) :
         \A e1 \in {[Calm EXCEPT !.retrieve = retrieve]} :
         \A pa1 \in {Handled(d2, e1, telegram_users, members, banned)},
            pb1 \in {Handled(d2, e1, last.before, last.inGroup,
                             last.blocked)} :
         \A store \in (IF pa1.reads = 1 \/ pb1.reads = 1
                       THEN Answers ELSE {"ok"}) :
         \A unhandled \in (IF build = "app" /\ store # "ok"
                           THEN {0, 500} ELSE {0}) :
         \A e2 \in {[e1 EXCEPT !.store = store, !.unhandled = unhandled]} :
         \A pa2 \in {Handled(d2, e2, telegram_users, members, banned)},
            pb2 \in {Handled(d2, e2, last.before, last.inGroup,
                             last.blocked)} :
         /\ \A fa \in BotAnswers(pa2, members),
               ba \in BotAnswers(pb2, last.inGroup) :
              \A f2 \in {WithBot(d2, e2, pa2, fa, telegram_users, members,
                                 banned)},
                 b2 \in {WithBot(d2, e2, pb2, ba, last.before, last.inGroup,
                                 last.blocked)} :
                /\ SameDecision(f2, b2)
                /\ f2.table = pa2.table
         /\ \A ba \in BotAnswers(pb2, last.inGroup) :
              \A b2 \in {WithBot(d2, e2, pb2, ba, last.before, last.inGroup,
                                 last.blocked)} :
              \A pc \in {Handled(last.req, last.env, b2.table, b2.members,
                                 b2.banned)} :
              \A bb \in BotAnswers(pc, b2.members) :
              \A b1 \in {WithBot(last.req, last.env, pc, bb, b2.table,
                                 b2.members, b2.banned)} :
                /\ SameDecision(last.res, b1)
                /\ b1.table = pa2.table

\* C17's case: a payment failure removed a linked account; the checkout
\* event for the same email, handled after it or before it, removes nobody
\* and is acknowledged, and the payment failure handled second removes the
\* account all the same.
C17_Witness ==
    /\ last.kind = "stripe"
    /\ last.req.type = "invoice.payment_failed"
    /\ last.res.outcome = "removed"
    /\ \E a \in Accounts, d2 \in OtherEvents :
         LET b2 == Handled(d2, Calm, last.before, last.inGroup, last.blocked)
         IN  /\ last.res.bans = <<a>>
             /\ a \in last.inGroup
             /\ d2.type = "checkout.session.completed"
             /\ a \in AccountsMatching(last.before, d2.customer_email)
             /\ Handled(d2, Calm, telegram_users, members, banned).bans = << >>
             /\ b2.bans = << >>
             /\ b2.status = 200
             /\ Handled(last.req, last.env, b2.table, b2.members,
                        b2.banned).bans = <<a>>

\* C18 as claimed: every delivery is answered, whatever path the handler
\* takes (signature failure, unparseable body, customer lookup failure,
\* store lookup failure, revoke failure, success): the request ends with
\* one of the handler's statuses, never without a response.
C18_EveryDeliveryAnswered ==
    last.kind = "stripe" => last.res.status \in {200, 400, 500}

\* C19 as claimed: no two stored links hold emails that are equal up to
\* letter case, so that a revoking event for an email issues the removal for
\* every account linked to it.
C19_OneLinkPerEmailIgnoringCase ==
    /\ \A i, j \in 1..Len(telegram_users) :
         i # j => ~SameUpToCase(telegram_users[i].email, telegram_users[j].email)
    /\ ( /\ last.kind = "stripe"
         /\ Passed
         /\ last.req.type \in RevokingSet
         /\ EventEmail # NoEmail
         /\ last.env.store = "ok" )
       => \A a \in AccountsMatching(last.before, EventEmail) :
            \E k \in 1..Len(last.res.bans) : last.res.bans[k] = a

\* C20 as claimed: the listing is served only to a request that presents
\* the configured admin token; every other request (a wrong token, no token,
\* with an admin token configured or without) is answered 403 and causes no
\* store read.
C20_ListingTokenGated ==
    ( /\ last.kind = "dashboard"
      /\ ~(dashboardToken # NoToken /\ last.req.token = dashboardToken) )
    => /\ last.res.status = 403
       /\ last.res.reads = 0
       /\ last.res.rows = NoRows

\* C21 as claimed: on a table that initDb created and the linking flow
\* filled, with the store answering, a listing request that presents the
\* configured admin token is answered 200 with every stored link, none added
\* or omitted, in the order of linking, or the reverse of it for order=desc.
C21_ListingFullSnapshot ==
    ( /\ last.kind = "dashboard"
      /\ dashboardToken # NoToken
      /\ last.req.token = dashboardToken
      /\ schema = Created
      /\ last.env.query = "ok" )
    => /\ last.res.status = 200
       /\ last.res.rows = IF last.req.order = "desc"
                          THEN Reverse(last.before) ELSE last.before

\* C22: the process serves (it listens, or has handled a request) only with
\* every required setting present, after initDb succeeded and after the
\* webhook registration was attempted; with a required setting missing it
\* never gets past the module load; a failed initDb ends the process before
\* the registration and the listen; a failed registration is logged, does
\* not reach the catch that exits, and the startup goes on to app.listen.
C22_StartupOrdering ==
    /\ (Listening \/ last.kind # "none")
       => /\ processEnv = Required
          /\ tableCreated
          /\ registration # "none"
    /\ processEnv # Required
       => /\ startup \in {"load", "exited"}
          /\ ~tableCreated
          /\ registration = "none"
    /\ LogFailedToStart \in console
       => /\ startup = "exited"
          /\ ~tableCreated
          /\ registration = "none"
    /\ registration = "failed"
       => /\ LogWebhookFailed \in console
          /\ LogFailedToStart \notin console
          /\ startup \in {"listen", "serving", "exited"}
          /\ startup = "exited" => LogListenError \in console

\* The registration failed, the server listens all the same and has linked
\* an account.
C22_Witness ==
    /\ registration = "failed"
    /\ Listening
    /\ last.kind = "text"
    /\ last.res.table # last.before

====
